---- MODULE Spec2Model ----
(***************************************************************************)
(* The relay hub RemoteDesktopServer of src/muma2.0.py (the concurrent     *)
(* revision, specification Spec) and of src/muma.py (the sequential        *)
(* revision, specification SpecSeq).                                       *)
(*                                                                         *)
(* One asyncio task runs handle_client per connection.  A step of the      *)
(* model is the code a task runs between two suspension points (an await   *)
(* of the next inbound message, of a websocket send, or of                 *)
(* asyncio.gather); everything between two awaits is atomic, as it is on   *)
(* the single-threaded event loop.                                         *)
(*                                                                         *)
(* A websocket send resolves when the event loop gets to it: it succeeds   *)
(* if the transport is OPEN at that moment and raises otherwise.           *)
(* The 'timestamp' field of the cached frame (time.time()) is left out:    *)
(* no operation reads it.                                                  *)
(***************************************************************************)
EXTENDS Naturals, Sequences, FiniteSets

\* Number of transport sessions (websocket objects) that ever connect.
NumConns == 3
\* Number of inbound JSON-object messages the hub dispatches in a run in which
\* the peers send what they like (the scripted runs send their script).
MaxMessages == 2
\* Number of distinct screen_data payloads a peer can submit.
MaxFrames == 1

VARIABLES
    revision,             \* "muma2.0" or "muma": which source file runs
    clients,              \* self.clients
    screen_providers,     \* self.screen_providers
    screen_viewers,       \* self.screen_viewers
    control_clients,      \* self.control_clients
    current_screen_data,  \* self.current_screen_data (NoFrame is None)
    screen_info,          \* self.screen_info
    stats,                \* self.stats (muma2.0.py only)
    state,                \* websocket.state of each connection
    pc,                   \* where each connection's handle_client task is
    msg,                  \* the message that task is handling
    bc,                   \* the broadcast that task is running
    declared,             \* the client_type each connection last registered with, and
                          \* how many register messages it has sent (2: two or more)
    nmsgs,                \* inbound JSON-object messages dispatched so far
    inbox,                \* scripted runs: what each peer has still to send, in order
                          \* (Free: the peers send any message at any time)
    snap                  \* the HTTP thread's call of get_server_status: how many of
                          \* the four counts it has read, and their values

vars == <<revision, clients, screen_providers, screen_viewers, control_clients,
          current_screen_data, screen_info, stats, state, pc, msg, bc,
          declared, nmsgs, inbox, snap>>

Conn == 1..NumConns

ClientTypes == {"provider", "viewer", "controller"}

NoFrame == [type |-> "None", data |-> 0, width |-> 0, height |-> 0,
            original_width |-> 0, original_height |-> 0]

NoInfo == [width |-> 0, height |-> 0, original_width |-> 0, original_height |-> 0]

\* The inbound payloads, after json.loads.
ScreenData(f) == [type |-> "screen_data", data |-> f, width |-> f, height |-> f + 1,
                  original_width |-> 2 * f, original_height |-> 2 * (f + 1)]

RegisterMsgs == {[type |-> "register", client_type |-> ct] : ct \in ClientTypes}

ScreenMsgs == {ScreenData(f) : f \in 1..MaxFrames}

ControlMsgs == {[type |-> "mouse", event_type |-> "click"],
                [type |-> "keyboard", event_type |-> "type"]}

OtherMsgs == {[type |-> "get_screenshot"], [type |-> "ping"], [type |-> "unknown"]}

NoMsg == [type |-> "None"]

\* What a task keeps across its awaits: the request it handles, the reply it sends.
Idle == [req |-> NoMsg, out |-> NoMsg]

Min(a, b) == IF a <= b THEN a ELSE b

\* list(s) of a Python set of connections: the iteration order of the hash table,
\* a fixed order of the members for as long as no two of them collide.
List(S) == CHOOSE s \in [1..Cardinality(S) -> S] :
               \A i, j \in 1..Cardinality(S) : i < j => s[i] < s[j]

Range(s) == {s[i] : i \in DOMAIN s}

NoBc == [role |-> "None", payload |-> NoMsg, targets |-> <<>>, results |-> <<>>,
         closed0 |-> {}, cur |-> 0, size |-> 0, disconnected |-> {}, tried |-> {}]

RoleSetOf(role, P, V, C) ==
    IF role = "provider" THEN P ELSE IF role = "controller" THEN C ELSE V

RoleSet(role) == RoleSetOf(role, screen_providers, screen_viewers, control_clients)

\* No call of get_server_status is under way.
NoSnap == [read |-> 0, total_clients |-> 0, screen_providers |-> 0,
           screen_viewers |-> 0, control_clients |-> 0]

Init2 ==
    /\ clients = {}
    /\ screen_providers = {}
    /\ screen_viewers = {}
    /\ control_clients = {}
    /\ current_screen_data = NoFrame
    /\ screen_info = NoInfo
    /\ stats = [messages_received |-> 0, messages_sent |-> 0]
    /\ state = [c \in Conn |-> "OPEN"]
    /\ pc = [c \in Conn |-> "new"]
    /\ msg = [c \in Conn |-> Idle]
    /\ bc = [c \in Conn |-> NoBc]
    /\ declared = [c \in Conn |-> [client_type |-> "None", count |-> 0]]
    /\ nmsgs = 0
    /\ snap = NoSnap

\* The peers are free to send any message at any time.
Free == [c \in Conn |-> <<[type |-> "any"]>>]

\* The scenario of the three roles: connection 1 registers as viewer, connection 2
\* as provider and submits a frame, connection 3 as controller and clicks.
RolesScript ==
    [c \in Conn |->
        IF c = 1 THEN <<[type |-> "register", client_type |-> "viewer"]>>
        ELSE IF c = 2 THEN <<[type |-> "register", client_type |-> "provider"],
                             ScreenData(1)>>
        ELSE IF c = 3 THEN <<[type |-> "register", client_type |-> "controller"],
                             [type |-> "mouse", event_type |-> "click"]>>
        ELSE <<>>]

\* Several providers: connections 1, 2 and 3 register as provider, and connection 2
\* then sends a key.
ProvidersScript ==
    [c \in Conn |->
        IF c = 2 THEN <<[type |-> "register", client_type |-> "provider"],
                        [type |-> "keyboard", event_type |-> "type"]>>
        ELSE IF c \in {1, 3} THEN <<[type |-> "register", client_type |-> "provider"]>>
        ELSE <<>>]

\* The scenario of the default role: connection 1 registers as controller and
\* submits a frame, connection 2 sends a register message without client_type,
\* connection 3 registers as provider and then sends a register message without
\* client_type.
DefaultScript ==
    [c \in Conn |->
        IF c = 1 THEN <<[type |-> "register", client_type |-> "controller"],
                        ScreenData(1)>>
        ELSE IF c = 2 THEN <<[type |-> "register"]>>
        ELSE IF c = 3 THEN <<[type |-> "register", client_type |-> "provider"],
                             [type |-> "register"]>>
        ELSE <<>>]

Scripts == {RolesScript, ProvidersScript, DefaultScript}

\* A payload json.loads rejects.
Undecodable == [type |-> "undecodable"]

\* A payload that is valid JSON and not an object (a list, a number, a string, null).
NonObject == [type |-> "nonobject"]

\* The frames a scripted peer sends: frame 0 has width 0.
ScriptFrames == {ScreenData(f) : f \in 0..(MaxFrames + 1)}

\* The scenario of the frames: the connections send no register message (each is a
\* viewer from its accept on).  Connection 1 submits frame 1 and then frame 0,
\* connection 2 submits frame 2 and then sends a JSON list, an undecodable payload, a
\* JSON object without a type and one of an unknown type, connection 3 sends nothing.
FramesScript ==
    [c \in Conn |->
        IF c = 1 THEN <<ScreenData(1), ScreenData(0)>>
        ELSE IF c = 2 THEN <<ScreenData(2), NonObject, Undecodable, NoMsg,
                             [type |-> "unknown"]>>
        ELSE <<>>]

Init == revision = "muma2.0" /\ inbox = Free /\ Init2

InitSeq == revision = "muma" /\ inbox = Free /\ Init2

InitScript == revision = "muma2.0" /\ inbox \in Scripts /\ Init2

InitSeqScript == revision = "muma" /\ inbox \in Scripts /\ Init2

\* The scenario of one broadcast: connection 2 submits frame 1 to whoever has been
\* accepted by then.
FanScript == [c \in Conn |-> IF c = 2 THEN <<ScreenData(1)>> ELSE <<>>]

\* The connections whose transport may take a payload and never complete the send.
Slow == {1}

InitFan == revision = "muma2.0" /\ inbox = FanScript /\ Init2

InitSeqFan == revision = "muma" /\ inbox = FanScript /\ Init2

\* The scenario of the race: connection 1 submits a frame while connection 2, which
\* has registered as provider, sends a key; connection 3 only connects.
RaceScript ==
    [c \in Conn |->
        IF c = 1 THEN <<ScreenData(1)>>
        ELSE IF c = 2 THEN <<[type |-> "register", client_type |-> "provider"],
                             [type |-> "keyboard", event_type |-> "type"]>>
        ELSE <<>>]

InitRace == revision = "muma2.0" /\ inbox = RaceScript /\ Init2

InitFrames == revision = "muma2.0" /\ inbox = FramesScript /\ Init2

\* The scenario of the status page: connection 1 registers as provider and
\* connection 2 as controller, connection 3 only connects, while /api/status is
\* requested again and again.
StatusScript ==
    [c \in Conn |->
        IF c = 1 THEN <<[type |-> "register", client_type |-> "provider"]>>
        ELSE IF c = 2 THEN <<[type |-> "register", client_type |-> "controller"]>>
        ELSE <<>>]

InitStatus == revision = "muma2.0" /\ inbox = StatusScript /\ Init2

\* Values of client_type that are none of the three roles: some other string, and
\* JSON null ("null" stands for Python's None).
OddTypes == {"admin", "null"}

OddRegisterMsgs == {[type |-> "register", client_type |-> ct] : ct \in OddTypes}

\* The scenario of the unknown roles: connection 1 submits a frame, connection 2
\* registers as "admin", connection 3 registers with client_type null and then as
\* viewer.
OddScript ==
    [c \in Conn |->
        IF c = 1 THEN <<ScreenData(1)>>
        ELSE IF c = 2 THEN <<[type |-> "register", client_type |-> "admin"]>>
        ELSE IF c = 3 THEN <<[type |-> "register", client_type |-> "null"],
                             [type |-> "register", client_type |-> "viewer"]>>
        ELSE <<>>]

InitOdd == revision = "muma2.0" /\ inbox = OddScript /\ Init2

HasFrame == current_screen_data # NoFrame

\* register_client, up to its fast-path send: the registry after the adds.
RegisterClient(c, client_type) ==
    /\ clients' = clients \cup {c}
    /\ screen_providers' = IF client_type = "provider"
                           THEN screen_providers \cup {c} ELSE screen_providers
    /\ control_clients' = IF client_type = "controller"
                          THEN control_clients \cup {c} ELSE control_clients
    /\ screen_viewers' = IF client_type \notin {"provider", "controller"}
                         THEN screen_viewers \cup {c} ELSE screen_viewers

\* The fast path taken for every connection that lands in screen_viewers.
FastPathUnlessRole(client_type) == client_type \notin {"provider", "controller"} /\ HasFrame

\* The fast path taken for every role.
FastPathAnyRole(client_type) == client_type \in ClientTypes /\ HasFrame

\* The condition of register_client's fast path: the cached frame is sent.
FastPath(client_type) == client_type = "viewer" /\ HasFrame

\* unregister_client toggling the membership in clients (^= instead of discard).
UnregisterToggles(D) ==
    /\ clients' = (clients \ D) \cup (D \ clients)
    /\ screen_providers' = screen_providers \ D
    /\ screen_viewers' = screen_viewers \ D
    /\ control_clients' = control_clients \ D

\* Unregister with the discard from screen_viewers forgotten.
UnregisterKeepsViewer(D) ==
    /\ clients' = clients \ D
    /\ screen_providers' = screen_providers \ D
    /\ screen_viewers' = screen_viewers
    /\ control_clients' = control_clients \ D

\* unregister_client, called for every connection of D in turn (no await inside).
Unregister(D) ==
    /\ clients' = clients \ D
    /\ screen_providers' = screen_providers \ D
    /\ screen_viewers' = screen_viewers \ D
    /\ control_clients' = control_clients \ D

\* SendOk without the check of the transport: a send to a closed client succeeds.
SendOkAlways(c) == state[c] \in {"OPEN", "CLOSED"}

\* Whether a send to connection c that resolves now succeeds.
SendOk(c) == state[c] = "OPEN"

\* stats['messages_sent'] += n, which only muma2.0.py keeps.
Sent(n) == IF revision = "muma2.0"
           THEN [stats EXCEPT !.messages_sent = @ + n] ELSE stats

\* handle_client up to its first await: the connection is registered as a viewer.
Accept(c) ==
    /\ pc[c] = "new"
    /\ RegisterClient(c, "viewer")
    /\ pc' = [pc EXCEPT ![c] = IF FastPath("viewer") THEN "accept_send" ELSE "recv"]
    /\ UNCHANGED <<revision, snap, current_screen_data, screen_info, stats, state, msg, bc,
                   declared, nmsgs, inbox>>

\* The fast-path send of handle_client's own register_client resolves; a failure
\* is swallowed by register_client.
AcceptSent(c) ==
    /\ pc[c] = "accept_send"
    /\ stats' = IF SendOk(c) THEN Sent(1) ELSE stats
    /\ pc' = [pc EXCEPT ![c] = "recv"]
    /\ UNCHANGED <<revision, snap, clients, screen_providers, screen_viewers, control_clients,
                   current_screen_data, screen_info, state, msg, bc, declared, nmsgs, inbox>>

\* The peer of an accepted connection goes away, or the transport breaks.
Close(c) ==
    /\ pc[c] \notin {"new", "done"}
    /\ state[c] = "OPEN"
    /\ state' = [state EXCEPT ![c] = "CLOSED"]
    /\ UNCHANGED <<revision, snap, clients, screen_providers, screen_viewers, control_clients,
                   current_screen_data, screen_info, stats, pc, msg, bc, declared, nmsgs, inbox>>

\* ReadLoopEnd without the finally clause: the handler returns, nothing is unregistered.
ReadLoopEndNoFinally(c) ==
    /\ pc[c] = "recv"
    /\ state[c] = "CLOSED"
    /\ pc' = [pc EXCEPT ![c] = "done"]
    /\ UNCHANGED <<revision, snap, clients, screen_providers, screen_viewers, control_clients,
                   current_screen_data, screen_info, stats, state, msg, bc,
                   declared, nmsgs, inbox>>

\* The finally clause also dropping the cached frame when the last provider leaves.
ReadLoopEndClearsFrame(c) ==
    /\ pc[c] = "recv"
    /\ state[c] = "CLOSED"
    /\ Unregister({c})
    /\ current_screen_data' = IF screen_providers \ {c} = {} THEN NoFrame
                              ELSE current_screen_data
    /\ pc' = [pc EXCEPT ![c] = "done"]
    /\ UNCHANGED <<revision, snap, screen_info, stats, state, msg, bc,
                   declared, nmsgs, inbox>>

\* The read loop of handle_client ends (ConnectionClosed or another exception) and
\* the finally clause unregisters the connection.
ReadLoopEnd(c) ==
    /\ pc[c] = "recv"
    /\ state[c] = "CLOSED"
    /\ Unregister({c})
    /\ pc' = [pc EXCEPT ![c] = "done"]
    /\ UNCHANGED <<revision, snap, current_screen_data, screen_info, stats, state, msg, bc,
                   declared, nmsgs, inbox>>

\* The cached record updated field by field, the width left for later.
ScreenshotStaleWidth(data) ==
    [type |-> "screenshot", data |-> data.data,
     width |-> IF HasFrame THEN current_screen_data.width ELSE data.width,
     height |-> data.height, original_width |-> data.original_width,
     original_height |-> data.original_height]

\* The screenshot record handle_screen_data builds from a screen_data message.
Screenshot(data) ==
    [type |-> "screenshot", data |-> data.data, width |-> data.width,
     height |-> data.height, original_width |-> data.original_width,
     original_height |-> data.original_height]

\* screen_info given the dimensions of the original screen as width and height.
InfoOfOriginal(data) ==
    [width |-> data.original_width, height |-> data.original_height,
     original_width |-> data.original_width, original_height |-> data.original_height]

\* screen_info keeping its old value where the message's is 0 (x or old).
InfoOfUnlessZero(data) ==
    [width |-> IF data.width = 0 THEN screen_info.width ELSE data.width,
     height |-> IF data.height = 0 THEN screen_info.height ELSE data.height,
     original_width |-> IF data.original_width = 0 THEN screen_info.original_width
                        ELSE data.original_width,
     original_height |-> IF data.original_height = 0 THEN screen_info.original_height
                         ELSE data.original_height]

\* The four fields handle_screen_data copies into screen_info.
InfoOf(data) ==
    [width |-> data.width, height |-> data.height,
     original_width |-> data.original_width, original_height |-> data.original_height]

RegisterAck(client_type) ==
    [type |-> "register_ack", client_type |-> client_type, screen_info |-> screen_info]

\* A broadcast over every connected client instead of the members of the role set.
BcStartAll(role, payload) ==
    [role |-> role, payload |-> payload,
     targets |-> List(clients),
     results |-> [i \in 1..Cardinality(clients) |-> "pending"],
     closed0 |-> {t \in clients : state[t] # "OPEN"},
     cur |-> IF revision = "muma" THEN List(clients)[1] ELSE 0,
     size |-> IF revision = "muma" THEN Cardinality(clients) ELSE 0,
     disconnected |-> {}, tried |-> {}]

\* The broadcast a handler starts over a role set.  muma2.0.py copies the set
\* (list(...)) and creates one send per member; muma.py iterates the live set and
\* awaits the send to its first member.  closed0 and tried are for the record only:
\* the targets already closed at the start, the targets a send was attempted to.
BcStart(role, payload) ==
    LET S == RoleSet(role) IN
    [role |-> role, payload |-> payload,
     targets |-> List(S),
     results |-> [i \in 1..Cardinality(S) |-> "pending"],
     closed0 |-> {t \in S : state[t] # "OPEN"},
     cur |-> IF revision = "muma" THEN List(S)[1] ELSE 0,
     size |-> IF revision = "muma" THEN Cardinality(S) ELSE 0,
     disconnected |-> {}, tried |-> {}]

BcPc == IF revision = "muma" THEN "seq_send" ELSE "gather"

\* A read loop that does not await the handling of a message: the next message is
\* taken while the broadcast of the previous one is still under way.
CountedAnytime(c, m) ==
    /\ pc[c] \in {"recv", "gather", "seq_send"}
    /\ IF inbox = Free
       THEN nmsgs < MaxMessages /\ nmsgs' = nmsgs + 1 /\ UNCHANGED inbox
       ELSE /\ inbox[c] # <<>>
            /\ Head(inbox[c]) = m
            /\ inbox' = [inbox EXCEPT ![c] = Tail(@)]
            /\ UNCHANGED nmsgs
    /\ stats' = IF revision = "muma2.0"
                THEN [stats EXCEPT !.messages_received = @ + 1] ELSE stats

\* The read loop of connection c yields the JSON object m: a peer's free choice, or
\* the next message of its script.  handle_client_message counts it:
\* stats['messages_received'] += 1 (muma2.0.py).
Counted(c, m) ==
    /\ pc[c] = "recv"
    /\ IF inbox = Free
       THEN nmsgs < MaxMessages /\ nmsgs' = nmsgs + 1 /\ UNCHANGED inbox
       ELSE /\ inbox[c] # <<>>
            /\ Head(inbox[c]) = m
            /\ inbox' = [inbox EXCEPT ![c] = Tail(@)]
            /\ UNCHANGED nmsgs
    /\ stats' = IF revision = "muma2.0"
                THEN [stats EXCEPT !.messages_received = @ + 1] ELSE stats

\* handle_client_message, type 'register', up to its first await.
RecvRegister(c, client_type) ==
    /\ Counted(c, [type |-> "register", client_type |-> client_type])
    /\ RegisterClient(c, client_type)
    /\ declared' = [declared EXCEPT ![c] = [client_type |-> client_type,
                                             count |-> Min(@.count + 1, 2)]]
    /\ IF FastPath(client_type)
       THEN /\ pc' = [pc EXCEPT ![c] = "reg_send"]
            /\ msg' = [msg EXCEPT ![c] = [req |-> [type |-> "register",
                                                   client_type |-> client_type],
                                          out |-> current_screen_data]]
       ELSE /\ pc' = [pc EXCEPT ![c] = "ack_send"]
            /\ msg' = [msg EXCEPT ![c] = [req |-> [type |-> "register",
                                                   client_type |-> client_type],
                                          out |-> RegisterAck(client_type)]]
    /\ UNCHANGED <<revision, snap, current_screen_data, screen_info, state, bc>>

\* data.get('client_type', 'viewer') of a register message.
ClientTypeOf(data) ==
    IF "client_type" \in DOMAIN data THEN data.client_type ELSE "viewer"

\* handle_client_message, type 'register' without client_type: as RecvRegister with
\* the default of data.get.
RecvRegisterNoType(c) ==
    LET data == [type |-> "register"]
        client_type == ClientTypeOf(data)
    IN  /\ Counted(c, data)
        /\ RegisterClient(c, client_type)
        /\ declared' = [declared EXCEPT ![c] = [client_type |-> client_type,
                                                 count |-> Min(@.count + 1, 2)]]
        /\ IF FastPath(client_type)
           THEN /\ pc' = [pc EXCEPT ![c] = "reg_send"]
                /\ msg' = [msg EXCEPT ![c] = [req |-> [type |-> "register",
                                                       client_type |-> client_type],
                                              out |-> current_screen_data]]
           ELSE /\ pc' = [pc EXCEPT ![c] = "ack_send"]
                /\ msg' = [msg EXCEPT ![c] = [req |-> [type |-> "register",
                                                       client_type |-> client_type],
                                              out |-> RegisterAck(client_type)]]
        /\ UNCHANGED <<revision, snap, current_screen_data, screen_info, state, bc>>

\* register_client's fast-path send resolves (a failure is swallowed); the handler
\* goes on to send the register_ack, built from screen_info as it is now.
RegSent(c) ==
    /\ pc[c] = "reg_send"
    /\ stats' = IF SendOk(c) THEN Sent(1) ELSE stats
    /\ pc' = [pc EXCEPT ![c] = "ack_send"]
    /\ msg' = [msg EXCEPT ![c].out = RegisterAck(msg[c].req.client_type)]
    /\ UNCHANGED <<revision, snap, clients, screen_providers, screen_viewers, control_clients,
                   current_screen_data, screen_info, state, bc, declared, nmsgs, inbox>>

\* The send of the register_ack resolves; a failure is caught (and only printed)
\* by handle_client_message.
AckSent(c) ==
    /\ pc[c] = "ack_send"
    /\ stats' = IF SendOk(c) THEN Sent(1) ELSE stats
    /\ pc' = [pc EXCEPT ![c] = "recv"]
    /\ msg' = [msg EXCEPT ![c] = Idle]
    /\ UNCHANGED <<revision, snap, clients, screen_providers, screen_viewers, control_clients,
                   current_screen_data, screen_info, state, bc, declared, nmsgs, inbox>>

\* screen_data accepted from the members of screen_providers only.
RecvScreenDataFromProvider(c, data) ==
    /\ Counted(c, data)
    /\ IF c \in screen_providers
       THEN /\ current_screen_data' = Screenshot(data)
            /\ screen_info' = InfoOf(data)
            /\ IF screen_viewers # {}
               THEN /\ bc' = [bc EXCEPT ![c] = BcStart("viewer", Screenshot(data))]
                    /\ pc' = [pc EXCEPT ![c] = BcPc]
               ELSE UNCHANGED <<bc, pc>>
       ELSE UNCHANGED <<current_screen_data, screen_info, bc, pc>>
    /\ UNCHANGED <<revision, snap, clients, screen_providers, screen_viewers, control_clients,
                   state, msg, declared>>

\* handle_client_message, type 'screen_data': handle_screen_data up to its first await.
RecvScreenData(c, data) ==
    /\ Counted(c, data)
    /\ current_screen_data' = Screenshot(data)
    /\ screen_info' = InfoOf(data)
    /\ IF screen_viewers # {}
       THEN /\ bc' = [bc EXCEPT ![c] = BcStart("viewer", Screenshot(data))]
            /\ pc' = [pc EXCEPT ![c] = BcPc]
       ELSE UNCHANGED <<bc, pc>>
    /\ UNCHANGED <<revision, snap, clients, screen_providers, screen_viewers, control_clients,
                   state, msg, declared>>

\* handle_control_event without the test for an empty provider set.
RecvControlUnguarded(c, data) ==
    /\ Counted(c, data)
    /\ bc' = [bc EXCEPT ![c] = [role |-> "provider", payload |-> data,
                                targets |-> List(screen_providers),
                                results |-> [i \in 1..Cardinality(screen_providers)
                                               |-> "pending"],
                                closed0 |-> {}, cur |-> 0, size |-> 0,
                                disconnected |-> {}, tried |-> {}]]
    /\ pc' = [pc EXCEPT ![c] = "gather"]
    /\ UNCHANGED <<revision, snap, clients, screen_providers, screen_viewers, control_clients,
                   current_screen_data, screen_info, state, msg, declared>>

\* A control event answered with an acknowledgement to its sender, not forwarded.
RecvControlReplies(c, data) ==
    /\ Counted(c, data)
    /\ pc' = [pc EXCEPT ![c] = "reply_send"]
    /\ msg' = [msg EXCEPT ![c] = [req |-> data, out |-> [type |-> "ack"]]]
    /\ UNCHANGED <<revision, snap, clients, screen_providers, screen_viewers, control_clients,
                   current_screen_data, screen_info, state, bc, declared>>

\* handle_control_event keeping the event for later when there is no provider.
RecvControlKeeps(c, data) ==
    /\ Counted(c, data)
    /\ IF screen_providers # {}
       THEN /\ bc' = [bc EXCEPT ![c] = BcStart("provider", data)]
            /\ pc' = [pc EXCEPT ![c] = BcPc]
            /\ UNCHANGED msg
       ELSE /\ msg' = [msg EXCEPT ![c] = [req |-> data, out |-> data]]
            /\ UNCHANGED <<bc, pc>>
    /\ UNCHANGED <<revision, snap, clients, screen_providers, screen_viewers, control_clients,
                   current_screen_data, screen_info, state, declared>>

\* handle_client_message, type 'mouse' or 'keyboard': handle_control_event up to its
\* first await.
RecvControl(c, data) ==
    /\ Counted(c, data)
    /\ IF screen_providers # {}
       THEN /\ bc' = [bc EXCEPT ![c] = BcStart("provider", data)]
            /\ pc' = [pc EXCEPT ![c] = BcPc]
       ELSE UNCHANGED <<bc, pc>>
    /\ UNCHANGED <<revision, snap, clients, screen_providers, screen_viewers, control_clients,
                   current_screen_data, screen_info, state, msg, declared>>

\* get_screenshot answered with whatever current_screen_data holds, None included.
RecvQueryUnchecked(c, data) ==
    /\ Counted(c, data)
    /\ pc' = [pc EXCEPT ![c] = "reply_send"]
    /\ msg' = [msg EXCEPT ![c] =
                 [req |-> data,
                  out |-> IF data.type = "ping" THEN [type |-> "pong"]
                          ELSE current_screen_data]]
    /\ UNCHANGED <<revision, snap, clients, screen_providers, screen_viewers, control_clients,
                   current_screen_data, screen_info, state, bc, declared>>

\* handle_client_message, types 'get_screenshot' and 'ping', up to the await of the reply.
RecvQuery(c, data) ==
    /\ Counted(c, data)
    /\ pc' = [pc EXCEPT ![c] = "reply_send"]
    /\ msg' = [msg EXCEPT ![c] =
                 [req |-> data,
                  out |-> IF data.type = "ping" THEN [type |-> "pong"]
                          ELSE IF HasFrame THEN current_screen_data
                          ELSE [type |-> "error"]]]
    /\ UNCHANGED <<revision, snap, clients, screen_providers, screen_viewers, control_clients,
                   current_screen_data, screen_info, state, bc, declared>>

\* The reply sent twice.
ReplySentTwice(c) ==
    /\ pc[c] = "reply_send"
    /\ stats' = IF SendOk(c) THEN Sent(2) ELSE stats
    /\ pc' = [pc EXCEPT ![c] = "recv"]
    /\ msg' = [msg EXCEPT ![c] = Idle]
    /\ UNCHANGED <<revision, snap, clients, screen_providers, screen_viewers, control_clients,
                   current_screen_data, screen_info, state, bc, declared, nmsgs, inbox>>

\* The send of a get_screenshot or ping reply resolves; a failure is caught (and only
\* printed) by handle_client_message.
ReplySent(c) ==
    /\ pc[c] = "reply_send"
    /\ stats' = IF SendOk(c) THEN Sent(1) ELSE stats
    /\ pc' = [pc EXCEPT ![c] = "recv"]
    /\ msg' = [msg EXCEPT ![c] = Idle]
    /\ UNCHANGED <<revision, snap, clients, screen_providers, screen_viewers, control_clients,
                   current_screen_data, screen_info, state, bc, declared, nmsgs, inbox>>

\* A message of an unknown type answered by unregistering its sender.
RecvUnknownDrops(c) ==
    /\ Counted(c, [type |-> "unknown"])
    /\ Unregister({c})
    /\ UNCHANGED <<revision, snap, current_screen_data, screen_info, state, pc, msg, bc,
                   declared>>

\* handle_client_message, a JSON object of a type no branch handles: counted, dropped.
RecvUnknown(c) ==
    /\ Counted(c, [type |-> "unknown"])
    /\ UNCHANGED <<revision, snap, clients, screen_providers, screen_viewers, control_clients,
                   current_screen_data, screen_info, state, pc, msg, bc, declared>>

\* handle_client_message, a JSON object without a type: data.get('type') is None,
\* no branch handles it: counted, dropped.
RecvNoType(c) ==
    /\ Counted(c, NoMsg)
    /\ UNCHANGED <<revision, snap, clients, screen_providers, screen_viewers, control_clients,
                   current_screen_data, screen_info, state, pc, msg, bc, declared>>

\* handle_client_message on a payload json.loads rejects: printed, dropped, not
\* counted.
RecvUndecodable(c) ==
    /\ pc[c] = "recv"
    /\ IF inbox = Free
       THEN UNCHANGED inbox
       ELSE /\ inbox[c] # <<>>
            /\ Head(inbox[c]) = Undecodable
            /\ inbox' = [inbox EXCEPT ![c] = Tail(@)]
    /\ UNCHANGED <<revision, snap, clients, screen_providers, screen_viewers, control_clients,
                   current_screen_data, screen_info, stats, state, pc, msg, bc, declared,
                   nmsgs>>

\* The AttributeError of data.get escaping to handle_client, which unregisters.
RecvNonObjectRaises(c) ==
    /\ pc[c] = "recv"
    /\ IF inbox = Free
       THEN UNCHANGED inbox
       ELSE /\ inbox[c] # <<>>
            /\ Head(inbox[c]) = NonObject
            /\ inbox' = [inbox EXCEPT ![c] = Tail(@)]
    /\ Unregister({c})
    /\ pc' = [pc EXCEPT ![c] = "done"]
    /\ UNCHANGED <<revision, snap, current_screen_data, screen_info, stats, state, msg, bc,
                   declared, nmsgs>>

\* handle_client_message on a payload json.loads turns into a list, number, string
\* or None: data.get raises AttributeError before the message is counted, except
\* Exception catches it: printed, dropped.
RecvNonObject(c) ==
    /\ pc[c] = "recv"
    /\ IF inbox = Free
       THEN UNCHANGED inbox
       ELSE /\ inbox[c] # <<>>
            /\ Head(inbox[c]) = NonObject
            /\ inbox' = [inbox EXCEPT ![c] = Tail(@)]
    /\ UNCHANGED <<revision, snap, clients, screen_providers, screen_viewers, control_clients,
                   current_screen_data, screen_info, stats, state, pc, msg, bc, declared,
                   nmsgs>>

\* The sends of a broadcast resolving one after the other, in the order of the list.
SendResolveInOrder(h, i) ==
    /\ pc[h] = "gather"
    /\ i \in DOMAIN bc[h].results
    /\ bc[h].results[i] = "pending"
    /\ \A j \in 1..(i - 1) : bc[h].results[j] # "pending"
    /\ bc' = [bc EXCEPT ![h].results[i] =
                 IF SendOk(bc[h].targets[i]) THEN "ok" ELSE "fail"]
    /\ UNCHANGED <<revision, snap, clients, screen_providers, screen_viewers, control_clients,
                   current_screen_data, screen_info, stats, state, pc, msg, declared, nmsgs, inbox>>

\* muma2.0.py, _send_to_client: one of the sends asyncio.gather runs resolves.
SendResolve(h, i) ==
    /\ pc[h] = "gather"
    /\ i \in DOMAIN bc[h].results
    /\ bc[h].results[i] = "pending"
    /\ bc' = [bc EXCEPT ![h].results[i] =
                 IF SendOk(bc[h].targets[i]) THEN "ok" ELSE "fail"]
    /\ UNCHANGED <<revision, snap, clients, screen_providers, screen_viewers, control_clients,
                   current_screen_data, screen_info, stats, state, pc, msg, declared, nmsgs, inbox>>

\* muma2.0.py, the pairs of zip(list(role set), results): the role set is listed
\* again, as it is when gather returns.
Zipped(role, results) ==
    LET now == List(RoleSet(role))
    IN  {<<now[i], results[i]>> : i \in 1..Min(Len(now), Len(results))}

\* A broadcast that ends only when no other handler is broadcasting.
GatherDoneAlone(h) ==
    /\ pc[h] = "gather"
    /\ \A d \in Conn \ {h} : pc[d] # "gather"
    /\ \A i \in DOMAIN bc[h].results : bc[h].results[i] # "pending"
    /\ LET pairs == Zipped(bc[h].role, bc[h].results)
           disconnected == {p[1] : p \in {q \in pairs : q[2] = "fail"}}
       IN  /\ Unregister(disconnected)
           /\ stats' = Sent(Cardinality({q \in pairs : q[2] = "ok"}))
    /\ pc' = [pc EXCEPT ![h] = "recv"]
    /\ bc' = [bc EXCEPT ![h] = NoBc]
    /\ UNCHANGED <<revision, snap, current_screen_data, screen_info, state, msg, declared, nmsgs, inbox>>

\* muma2.0.py, _broadcast_to_viewers and _broadcast_to_providers after gather: the
\* results are counted and the connections paired with an exception unregistered.
GatherDone(h) ==
    /\ pc[h] = "gather"
    /\ \A i \in DOMAIN bc[h].results : bc[h].results[i] # "pending"
    /\ LET pairs == Zipped(bc[h].role, bc[h].results)
           disconnected == {p[1] : p \in {q \in pairs : q[2] = "fail"}}
       IN  /\ Unregister(disconnected)
           /\ stats' = Sent(Cardinality({q \in pairs : q[2] = "ok"}))
    /\ pc' = [pc EXCEPT ![h] = "recv"]
    /\ bc' = [bc EXCEPT ![h] = NoBc]
    /\ UNCHANGED <<revision, snap, current_screen_data, screen_info, state, msg, declared, nmsgs, inbox>>

\* muma.py, the members of the live set the iterator has still to yield after cur.
Rest(role, cur) == {x \in RoleSet(role) : x > cur}

\* muma.py, handle_screen_data and handle_control_event: the awaited send to the
\* current member resolves and the for loop asks the set iterator for the next one.
\* The iterator raises RuntimeError if the set changed size since the loop began,
\* which the handler's outer except catches: the loop is abandoned.  When the
\* iterator is exhausted the connections whose send failed are unregistered.
SeqSent(h) ==
    /\ pc[h] = "seq_send"
    /\ LET t == bc[h].cur
           role == bc[h].role
           disconnected == IF SendOk(t) THEN bc[h].disconnected
                           ELSE bc[h].disconnected \cup {t}
       IN  IF Cardinality(RoleSet(role)) # bc[h].size
           THEN /\ pc' = [pc EXCEPT ![h] = "recv"]
                /\ bc' = [bc EXCEPT ![h] = NoBc]
                /\ UNCHANGED <<clients, screen_providers, screen_viewers, control_clients>>
           ELSE IF Rest(role, t) # {}
           THEN /\ bc' = [bc EXCEPT ![h].cur = List(Rest(role, t))[1],
                                    ![h].disconnected = disconnected,
                                    ![h].tried = @ \cup {t}]
                /\ UNCHANGED <<pc, clients, screen_providers, screen_viewers,
                               control_clients>>
           ELSE /\ Unregister(disconnected)
                /\ pc' = [pc EXCEPT ![h] = "recv"]
                /\ bc' = [bc EXCEPT ![h] = NoBc]
    /\ UNCHANGED <<revision, snap, current_screen_data, screen_info, stats, state, msg,
                   declared, nmsgs, inbox>>

\* get_server_status, without the runtime and the rate computed from the clock.
GetServerStatus ==
    [total_clients |-> Cardinality(clients),
     screen_providers |-> Cardinality(screen_providers),
     screen_viewers |-> Cardinality(screen_viewers),
     control_clients |-> Cardinality(control_clients),
     has_screen_data |-> current_screen_data # NoFrame,
     screen_info |-> screen_info,
     stats |-> stats]

\* The HTTP thread (run_flask, a thread of its own) is inside get_server_status and
\* evaluates the next len() of the dict it builds: len(self.clients), then
\* len(self.screen_providers), len(self.screen_viewers), len(self.control_clients).
\* Nothing locks the registry, so steps of the event loop may come between two reads.
StatusRead ==
    /\ snap.read < 4
    /\ snap' = [read |-> snap.read + 1,
                total_clients |-> IF snap.read = 0 THEN Cardinality(clients)
                                  ELSE snap.total_clients,
                screen_providers |-> IF snap.read = 1 THEN Cardinality(screen_providers)
                                     ELSE snap.screen_providers,
                screen_viewers |-> IF snap.read = 2 THEN Cardinality(screen_viewers)
                                   ELSE snap.screen_viewers,
                control_clients |-> IF snap.read = 3 THEN Cardinality(control_clients)
                                    ELSE snap.control_clients]
    /\ UNCHANGED <<revision, clients, screen_providers, screen_viewers, control_clients,
                   current_screen_data, screen_info, stats, state, pc, msg, bc,
                   declared, nmsgs, inbox>>

\* The route /api/status returns the dict; the next request starts afresh.
StatusReturn ==
    /\ snap.read = 4
    /\ snap' = NoSnap
    /\ UNCHANGED <<revision, clients, screen_providers, screen_viewers, control_clients,
                   current_screen_data, screen_info, stats, state, pc, msg, bc,
                   declared, nmsgs, inbox>>

\* The steps the two revisions share.
Common ==
    \E c \in Conn :
        \/ Accept(c)
        \/ AcceptSent(c)
        \/ Close(c)
        \/ ReadLoopEnd(c)
        \/ \E m \in RegisterMsgs : RecvRegister(c, m.client_type)
        \/ RecvRegisterNoType(c)
        \/ RegSent(c)
        \/ AckSent(c)
        \/ \E m \in ScreenMsgs : RecvScreenData(c, m)
        \/ \E m \in ControlMsgs : RecvControl(c, m)
        \/ \E m \in OtherMsgs \ {[type |-> "unknown"]} : RecvQuery(c, m)
        \/ ReplySent(c)
        \/ RecvUnknown(c)
        \/ RecvNoType(c)
        \/ RecvUndecodable(c)
        \/ RecvNonObject(c)

Next ==
    \/ Common
    \/ \E h \in Conn : \E i \in 1..NumConns : SendResolve(h, i)
    \/ \E h \in Conn : GatherDone(h)

NextSeq ==
    \/ Common
    \/ \E h \in Conn : SeqSent(h)

\* The steps of a scripted run.
Scripted ==
    \E c \in Conn :
        \/ Accept(c)
        \/ AcceptSent(c)
        \/ Close(c)
        \/ ReadLoopEnd(c)
        \/ \E m \in RegisterMsgs : RecvRegister(c, m.client_type)
        \/ RecvRegisterNoType(c)
        \/ RegSent(c)
        \/ AckSent(c)
        \/ \E m \in ScreenMsgs : RecvScreenData(c, m)
        \/ \E m \in ControlMsgs : RecvControl(c, m)

NextScript ==
    \/ Scripted
    \/ \E h \in Conn : \E i \in 1..NumConns : SendResolve(h, i)
    \/ \E h \in Conn : GatherDone(h)

NextSeqScript ==
    \/ Scripted
    \/ \E h \in Conn : SeqSent(h)

\* The steps of a run of FramesScript.
NextFrames ==
    \/ \E c \in Conn :
          \/ Accept(c)
          \/ AcceptSent(c)
          \/ Close(c)
          \/ ReadLoopEnd(c)
          \/ \E m \in ScriptFrames : RecvScreenData(c, m)
          \/ RecvUnknown(c)
          \/ RecvNoType(c)
          \/ RecvUndecodable(c)
          \/ RecvNonObject(c)
    \/ \E h \in Conn : \E i \in 1..NumConns : SendResolve(h, i)
    \/ \E h \in Conn : GatherDone(h)

\* src/muma2.0.py
Spec == Init /\ [][Next]_vars

\* src/muma.py
SpecSeq == InitSeq /\ [][NextSeq]_vars

\* src/muma2.0.py, the peers following one of Scripts
SpecScript == InitScript /\ [][NextScript]_vars

\* src/muma.py, the peers following one of Scripts
SpecSeqScript == InitSeqScript /\ [][NextSeqScript]_vars

\* src/muma2.0.py, the peers following FramesScript
SpecFrames == InitFrames /\ [][NextFrames]_vars

\* The steps of a run of FanScript.
NextFan ==
    \/ \E c \in Conn :
          \/ Accept(c)
          \/ AcceptSent(c)
          \/ Close(c)
          \/ ReadLoopEnd(c)
          \/ \E m \in ScreenMsgs : RecvScreenData(c, m)
    \/ \E h \in Conn : \E i \in 1..NumConns : SendResolve(h, i)
    \/ \E h \in Conn : GatherDone(h)

\* The event loop runs every task that is ready: a send gather has started to a
\* connection that is not slow does resolve (it completes, or raises when the
\* transport is closed).  Nothing is assumed of a send to a slow connection.
FairSends ==
    \A h \in Conn : \A i \in 1..NumConns :
        WF_vars(SendResolve(h, i) /\ bc[h].targets[i] \notin Slow)

\* Every pending send resolves, and the event loop resumes a handler whose gather
\* is complete.
FairBroadcasts ==
    /\ \A h \in Conn : \A i \in 1..NumConns : WF_vars(SendResolve(h, i))
    /\ \A h \in Conn : WF_vars(GatherDone(h))

\* The steps of a run of RaceScript.
NextRace ==
    \/ \E c \in Conn :
          \/ Accept(c)
          \/ AcceptSent(c)
          \/ Close(c)
          \/ ReadLoopEnd(c)
          \/ \E m \in RegisterMsgs : RecvRegister(c, m.client_type)
          \/ AckSent(c)
          \/ \E m \in ScreenMsgs : RecvScreenData(c, m)
          \/ \E m \in ControlMsgs : RecvControl(c, m)
    \/ \E h \in Conn : \E i \in 1..NumConns : SendResolve(h, i)
    \/ \E h \in Conn : GatherDone(h)

\* The steps of a run of OddScript.
NextOdd ==
    \/ \E c \in Conn :
          \/ Accept(c)
          \/ AcceptSent(c)
          \/ Close(c)
          \/ ReadLoopEnd(c)
          \/ \E m \in RegisterMsgs \cup OddRegisterMsgs : RecvRegister(c, m.client_type)
          \/ RegSent(c)
          \/ AckSent(c)
          \/ \E m \in ScreenMsgs : RecvScreenData(c, m)
    \/ \E h \in Conn : \E i \in 1..NumConns : SendResolve(h, i)
    \/ \E h \in Conn : GatherDone(h)

\* src/muma2.0.py, the peers following OddScript
SpecOdd == InitOdd /\ [][NextOdd]_vars

\* The steps of a run of StatusScript: the event loop's, and the HTTP thread's.
NextStatus ==
    \/ \E c \in Conn :
          \/ Accept(c)
          \/ Close(c)
          \/ ReadLoopEnd(c)
          \/ \E m \in RegisterMsgs : RecvRegister(c, m.client_type)
          \/ AckSent(c)
    \/ StatusRead
    \/ StatusReturn

\* src/muma2.0.py, the peers following StatusScript, with the status page polled
SpecStatus == InitStatus /\ [][NextStatus]_vars

\* src/muma2.0.py, the peers following RaceScript, every send resolving
SpecRace == InitRace /\ [][NextRace]_vars /\ FairBroadcasts

\* The steps of a run of FanScript in muma.py.
NextSeqFan ==
    \/ \E c \in Conn :
          \/ Accept(c)
          \/ AcceptSent(c)
          \/ Close(c)
          \/ ReadLoopEnd(c)
          \/ \E m \in ScreenMsgs : RecvScreenData(c, m)
    \/ \E h \in Conn : SeqSent(h)

\* muma.py: the send the loop awaits resolves if its target is not slow (it
\* completes) or its transport is closed (it raises), and the loop goes on.
\* Nothing is assumed of a send to a slow connection whose transport is open.
FairSeqSends ==
    \A h \in Conn :
        WF_vars(SeqSent(h) /\ (bc[h].cur \notin Slow \/ state[bc[h].cur] # "OPEN"))

\* src/muma.py, the peers following FanScript, with fair sends
SpecSeqFan == InitSeqFan /\ [][NextSeqFan]_vars /\ FairSeqSends

\* src/muma2.0.py, the peers following FanScript, with fair sends
SpecFan == InitFan /\ [][NextFan]_vars /\ FairSends

(***************************************************************************)
(* The claims.                                                             *)
(***************************************************************************)

Roles == screen_providers \cup screen_viewers \cup control_clients

\* The targets a send of h's broadcast has been attempted to when its next step is
\* taken (in muma.py that step resolves the send to cur).
Attempted(h) ==
    IF revision = "muma" THEN bc[h].tried \cup {bc[h].cur}
    ELSE {bc[h].targets[i] : i \in {j \in DOMAIN bc[h].results : bc[h].results[j] # "pending"}}

\* The targets of h's broadcast whose send failed, and those whose send succeeded.
Failed(h) ==
    IF revision = "muma"
    THEN bc[h].disconnected \cup {t \in {bc[h].cur} : state[t] # "OPEN"}
    ELSE {bc[h].targets[i] : i \in {j \in DOMAIN bc[h].results : bc[h].results[j] = "fail"}}

Succeeded(h) == Attempted(h) \ Failed(h)

\* The step in which h's broadcast ends and its handler goes back to reading.
Returns(h) == pc[h] \in {"gather", "seq_send"} /\ pc'[h] = "recv"

\* C1: no connection is a member of more than one of the three role sets.
C1_RoleSetsDisjoint ==
    /\ screen_providers \cap screen_viewers = {}
    /\ screen_providers \cap control_clients = {}
    /\ screen_viewers \cap control_clients = {}

\* Connections 1, 2 and 3 have each sent one register message, as viewer, provider
\* and controller, and the registrations of 1 and 3 are over.
RolesRegistered ==
    /\ declared[1] = [client_type |-> "viewer", count |-> 1]
    /\ declared[2] = [client_type |-> "provider", count |-> 1]
    /\ declared[3] = [client_type |-> "controller", count |-> 1]
    /\ pc[1] = "recv" /\ pc[3] = "recv"

\* C2: in the scenario of the three roles, the frame the provider (2) submits is
\* sent to the viewer (1) only, not to the controller (3) nor back to the provider.
C2_FrameToViewerOnly ==
    [][(/\ RolesRegistered
        /\ pc[2] = "recv"
        /\ pc'[2] = "gather"
        /\ bc'[2].payload.type = "screenshot")
       => Range(bc'[2].targets) = {1}]_vars

\* C3: a mouse or keyboard message has been sent (a send attempted) to every
\* connection that was in screen_providers when its broadcast started, by the time
\* the broadcast ends; stated for the targets that are still open providers then.
C3_ControlToEveryProvider ==
    [][\A h \in Conn :
         (Returns(h) /\ bc[h].role = "provider")
         => \A t \in Range(bc[h].targets) :
               (state[t] = "OPEN" /\ t \in screen_providers') => t \in Attempted(h)]_vars

\* C4: the connections a broadcast unregisters are exactly the targets whose send
\* failed.
C4_PrunesExactlyFailed ==
    [][\A h \in Conn :
         (pc[h] = "gather" /\ pc'[h] = "recv")
         => /\ clients' = clients \ Failed(h)
            /\ screen_providers' = screen_providers \ Failed(h)
            /\ screen_viewers' = screen_viewers \ Failed(h)
            /\ control_clients' = control_clients \ Failed(h)]_vars

\* The broadcast of h ran undisturbed: the role set is the one it started over, fewer
\* than all of its targets were closed when it started and none has closed since.
Quiet(h) ==
    /\ RoleSet(bc[h].role) = Range(bc[h].targets)
    /\ {t \in Range(bc[h].targets) : state[t] # "OPEN"} = bc[h].closed0
    /\ Cardinality(bc[h].closed0) < Len(bc[h].targets)

\* C5: an undisturbed broadcast over N connections of which M < N were closed ends
\* with M failed and N - M successful sends, messages_sent grown by N - M, and the
\* role set left with the N - M open targets.
C5_BroadcastCounts ==
    [][\A h \in Conn :
         (Returns(h) /\ Quiet(h))
         => LET N == Len(bc[h].targets)
                M == Cardinality(bc[h].closed0)
                after == RoleSetOf(bc[h].role, screen_providers', screen_viewers',
                                   control_clients')
            IN  /\ Failed(h) = bc[h].closed0
                /\ Cardinality(Failed(h)) = M
                /\ Cardinality(Succeeded(h)) = N - M
                /\ revision = "muma2.0"
                   => stats'.messages_sent = stats.messages_sent + (N - M)
                /\ after = Range(bc[h].targets) \ bc[h].closed0
                /\ Cardinality(after) = N - M]_vars

\* An undisturbed broadcast over at least two targets, one or more of them closed,
\* has had all its sends resolved.
C5_Witness ==
    \E h \in Conn :
        /\ pc[h] = "gather"
        /\ Attempted(h) = Range(bc[h].targets)
        /\ Quiet(h)
        /\ Len(bc[h].targets) >= 2
        /\ bc[h].closed0 # {}
        /\ Failed(h) # {} /\ Succeeded(h) # {}

\* C6: every role set is a subset of clients.
C6_RoleSetsInClients ==
    /\ screen_providers \subseteq clients
    /\ screen_viewers \subseteq clients
    /\ control_clients \subseteq clients

\* A connection has been unregistered while its handler is still running (pruned by a
\* broadcast), another has returned, and a registered provider remains.
C6_Witness ==
    \E c, d, e \in Conn :
        /\ pc[c] \in {"recv", "ack_send"} /\ c \notin clients
        /\ pc[d] = "done"
        /\ e \in screen_providers

\* C7: len(clients) is the sum of the sizes of the three role sets plus the number
\* of connections in clients that are in no role set.
C7_CountsAddUp ==
    Cardinality(clients) =
        Cardinality(screen_providers) + Cardinality(screen_viewers)
        + Cardinality(control_clients) + Cardinality(clients \ Roles)

\* C8: when a send to a connection fails, the connection is removed from clients and
\* from every role set; stated for the unicast replies (register_ack, the reply to
\* get_screenshot, pong), at the step in which their failure is handled.
C8_FailedSendUnregisters ==
    [][\A c \in Conn :
         (pc[c] \in {"ack_send", "reply_send"} /\ pc'[c] = "recv" /\ ~SendOk(c))
         => c \notin (clients' \cup screen_providers' \cup screen_viewers'
                      \cup control_clients')]_vars

\* C9: once handle_client has returned for a connection, the connection is in none
\* of clients, screen_providers, screen_viewers, control_clients (in every later
\* state: a handler that has returned stays returned).
C9_ReturnedIsAbsent ==
    \A c \in Conn : pc[c] = "done" => c \notin (clients \cup Roles)

\* A connection that had registered as controller has had its handler return while
\* another handler's broadcast is still pending.
C9_Witness ==
    \E c, h \in Conn :
        /\ pc[c] = "done"
        /\ declared[c].client_type = "controller"
        /\ pc[h] = "gather"

\* C10: when a connection that has registered sends a register message with
\* another role, it is afterwards in the new role's set and not in the old role's.
C10_SecondRegisterWins ==
    [][\A c \in Conn :
         (/\ declared[c].count >= 1
          /\ declared'[c].client_type # declared[c].client_type)
         => /\ c \in RoleSetOf(declared'[c].client_type, screen_providers',
                               screen_viewers', control_clients')
            /\ c \notin RoleSetOf(declared[c].client_type, screen_providers',
                                  screen_viewers', control_clients')]_vars

\* C11: a connection that has been accepted and has not sent a register message is
\* in clients and in none of the three role sets.
C11_UnregisteredHasNoRole ==
    \A c \in Conn :
        (pc[c] \notin {"new", "done"} /\ declared[c].count = 0)
        => (c \in clients /\ c \notin Roles)

\* C12: in muma2.0.py the connections a broadcast attempts to send to are exactly the
\* members of the role set when the broadcast starts: the step that starts it lists
\* each member once with its send pending, the list and the payload do not change
\* while sends are pending (a connection that joins meanwhile is not added, one that
\* leaves is not dropped), a resolved send stays resolved, and the broadcast ends
\* only when the send to every listed target has been attempted.
C12_TargetsAreTheSnapshot ==
    [][\A h \in Conn :
         /\ (pc[h] = "recv" /\ pc'[h] = "gather")
            => /\ Range(bc'[h].targets) = RoleSet(bc'[h].role)
               /\ Len(bc'[h].targets) = Cardinality(RoleSet(bc'[h].role))
               /\ \A i \in DOMAIN bc'[h].results : bc'[h].results[i] = "pending"
               /\ DOMAIN bc'[h].results = DOMAIN bc'[h].targets
         /\ (pc[h] = "gather" /\ pc'[h] = "gather")
            => /\ bc'[h].targets = bc[h].targets
               /\ bc'[h].payload = bc[h].payload
               /\ \A i \in DOMAIN bc[h].results :
                      bc[h].results[i] # "pending" => bc'[h].results[i] = bc[h].results[i]
         /\ (pc[h] = "gather" /\ pc'[h] = "recv")
            => Attempted(h) = Range(bc[h].targets)]_vars

\* Every send of a broadcast has resolved while one connection that was no member
\* at the start has joined the role set and one target has left it.
C12_Witness ==
    \E h \in Conn :
        /\ pc[h] = "gather"
        /\ Attempted(h) = Range(bc[h].targets)
        /\ RoleSet(bc[h].role) \ Range(bc[h].targets) # {}
        /\ Range(bc[h].targets) \ RoleSet(bc[h].role) # {}

\* C13: in a broadcast the failure of the send to one target does not affect the
\* others: when the broadcast ends every target whose transport is open has been
\* sent the payload, and no target has been sent it twice (each target is listed
\* once and, in muma.py, the loop never goes back to a connection it has tried).
C13_OpenTargetsAreSent ==
    [][\A h \in Conn :
         /\ Returns(h)
            => \A t \in Range(bc[h].targets) : state[t] = "OPEN" => t \in Succeeded(h)
         /\ (pc[h] \in {"gather", "seq_send"} /\ pc'[h] = pc[h] /\ bc'[h] # bc[h])
            => /\ Len(bc[h].targets) = Cardinality(Range(bc[h].targets))
               /\ revision = "muma" => bc'[h].cur \notin Attempted(h)]_vars

\* C14: in muma2.0.py a target whose send never resolves does not delay the others:
\* with fair sends, every target of a broadcast other than a slow one has its send
\* resolved, that is, it is sent the payload unless its transport has closed.
C14_OthersAreSent ==
    \A h \in Conn : \A i \in 1..NumConns :
        (/\ pc[h] = "gather"
         /\ i \in DOMAIN bc[h].targets
         /\ bc[h].targets[i] \notin Slow)
        ~> (\/ pc[h] # "gather"
            \/ i \notin DOMAIN bc[h].targets
            \/ bc[h].results[i] = "ok"
            \/ state[bc[h].targets[i]] # "OPEN")

\* The send to a slow target that is open is still pending while every other target
\* of the broadcast, two of them, has been sent the payload.
C14_Witness ==
    \E h \in Conn :
        /\ pc[h] = "gather"
        /\ Len(bc[h].targets) = NumConns
        /\ \A i \in DOMAIN bc[h].targets :
              /\ state[bc[h].targets[i]] = "OPEN"
              /\ bc[h].results[i] =
                    IF bc[h].targets[i] \in Slow THEN "pending" ELSE "ok"

\* C15: unregistering a connection that is in none of the sets (it has been
\* unregistered before, by a broadcast that pruned it) raises nothing and leaves
\* clients, the three role sets, the cached frame and screen_info unchanged.
C15_UnregisterAgainIsNoOp ==
    [][\A c \in Conn :
         (pc[c] = "recv" /\ pc'[c] = "done" /\ c \notin clients \cup Roles)
         => /\ clients' = clients
            /\ screen_providers' = screen_providers
            /\ screen_viewers' = screen_viewers
            /\ control_clients' = control_clients
            /\ current_screen_data' = current_screen_data
            /\ screen_info' = screen_info]_vars

\* A connection a broadcast has already unregistered is closed and its handler is
\* about to unregister it again, while other connections are registered and a frame
\* is cached.
C15_Witness ==
    \E c \in Conn :
        /\ pc[c] = "recv"
        /\ state[c] = "CLOSED"
        /\ c \notin clients \cup Roles
        /\ clients # {}
        /\ HasFrame

\* The step in which the handler of c takes a message of the given type off c's
\* script.
Takes(c, type) ==
    /\ inbox[c] # <<>>
    /\ Head(inbox[c]).type = type
    /\ inbox'[c] = Tail(inbox[c])

\* C16: the last screen_data wins.  Whatever was stored before, the step that
\* processes a screen_data message leaves in screen_info, in the snapshot and in
\* the cached frame the width, height, original_width and original_height of that
\* message and no other (0 included), and no other step changes them: after r1
\* and then r2 they carry the values of r2 only.
C16_LastFrameWins ==
    [][/\ \A c \in Conn :
            Takes(c, "screen_data")
            => LET r == Head(inbox[c])
                   dims == [width |-> r.width, height |-> r.height,
                            original_width |-> r.original_width,
                            original_height |-> r.original_height]
               IN  /\ screen_info' = dims
                   /\ GetServerStatus'.screen_info = dims
                   /\ GetServerStatus'.has_screen_data
                   /\ current_screen_data' =
                         [type |-> "screenshot", data |-> r.data, width |-> r.width,
                          height |-> r.height, original_width |-> r.original_width,
                          original_height |-> r.original_height]
       /\ (\A c \in Conn : ~Takes(c, "screen_data"))
           => /\ screen_info' = screen_info
              /\ current_screen_data' = current_screen_data]_vars

\* Frame 1, frame 2 and last frame 0 (from the connection that had sent frame 1) have
\* been processed, and the hub's screen_info has the width 0 of frame 0.
C16_Witness ==
    /\ inbox[1] = <<>>
    /\ Len(inbox[2]) < Len(FramesScript[2])
    /\ current_screen_data.data = 0
    /\ screen_info = [width |-> 0, height |-> 1, original_width |-> 0,
                      original_height |-> 2]
    /\ GetServerStatus.screen_info.width = 0

\* C17: the step that processes a get_screenshot from c builds a reply for c only:
\* an error, and no screenshot, when no frame is cached (none has ever been accepted,
\* the cache is never cleared), else the screenshot cached at that moment.  The reply
\* does not change while its send is pending, and neither the request nor the
\* resolution of the send starts a send to any other connection.
C17_ScreenshotOrError ==
    [][\A c \in Conn :
         /\ (pc[c] = "recv" /\ pc'[c] = "reply_send"
             /\ msg'[c].req.type = "get_screenshot")
            => /\ IF current_screen_data = NoFrame
                  THEN msg'[c].out.type = "error"
                  ELSE /\ msg'[c].out = current_screen_data
                       /\ msg'[c].out.type = "screenshot"
               /\ bc' = bc
               /\ \A d \in Conn \ {c} : pc'[d] = pc[d] /\ msg'[d] = msg[d]
         /\ (pc[c] = "reply_send" /\ pc'[c] = "reply_send") => msg'[c] = msg[c]
         /\ (pc[c] = "reply_send" /\ pc'[c] # "reply_send")
            => /\ pc'[c] = "recv"
               /\ bc' = bc
               /\ \A d \in Conn \ {c} : pc'[d] = pc[d] /\ msg'[d] = msg[d]]_vars

\* An error reply to a get_screenshot is on its way to the requester; a frame has
\* been accepted since the request was processed.
C17_Witness ==
    \E c \in Conn :
        /\ pc[c] = "reply_send"
        /\ msg[c].req.type = "get_screenshot"
        /\ msg[c].out.type = "error"
        /\ HasFrame

\* C18: a connection newly accepted on an otherwise empty hub has sent register as
\* provider: the snapshot taken right after shows screen_providers = 1 and
\* screen_viewers and control_clients as they were before it was accepted, 0.
C18_ProviderCountsOnly ==
    \A c \in Conn :
        (/\ \A d \in Conn \ {c} : pc[d] = "new"
         /\ pc[c] = "ack_send"
         /\ declared[c] = [client_type |-> "provider", count |-> 1])
        => /\ GetServerStatus.screen_providers = 1
           /\ GetServerStatus.screen_viewers = 0
           /\ GetServerStatus.control_clients = 0

\* C19: once a frame has been accepted the cached frame is never cleared: no step
\* takes the hub from having a frame to having none, and has_screen_data of the
\* snapshot stays true.
C19_FrameIsNeverCleared ==
    [][(current_screen_data # NoFrame /\ GetServerStatus.has_screen_data)
       => (current_screen_data' # NoFrame /\ GetServerStatus'.has_screen_data)]_vars

\* Every connection has come and gone, no client and no provider is registered, and
\* the snapshot still reports a frame.
C19_Witness ==
    /\ \A c \in Conn : pc[c] = "done"
    /\ clients = {}
    /\ Roles = {}
    /\ GetServerStatus.has_screen_data
    /\ current_screen_data.type = "screenshot"

\* C20: a payload that cannot be decoded, a JSON object without a type and one of an
\* unrecognized type are dropped silently: the step that processes one leaves
\* clients, the role sets, the cached frame and screen_info unchanged, sends nothing
\* and starts no send to any connection, and the sender stays registered as it was,
\* its handler reading on.
C20_GarbageIsDropped ==
    [][\A c \in Conn :
         (Takes(c, "undecodable") \/ Takes(c, "None") \/ Takes(c, "unknown"))
         => /\ clients' = clients
            /\ screen_providers' = screen_providers
            /\ screen_viewers' = screen_viewers
            /\ control_clients' = control_clients
            /\ current_screen_data' = current_screen_data
            /\ screen_info' = screen_info
            /\ pc' = pc /\ pc'[c] = "recv"
            /\ msg' = msg
            /\ bc' = bc
            /\ stats'.messages_sent = stats.messages_sent
            /\ state' = state]_vars

\* Connection 2 has sent its frame and then the three kinds of garbage; all have been
\* processed and it is still open, registered and being read.
C20_Witness ==
    /\ inbox[2] = <<>>
    /\ inbox # Free
    /\ stats.messages_received >= 3
    /\ state[2] = "OPEN"
    /\ pc[2] = "recv"
    /\ 2 \in clients \cap screen_viewers

\* C21: no exception escapes handle_client_message.  The step that processes a
\* payload that is valid JSON and not an object changes nothing but the script, the
\* sender's handler reading on; a handler that has started a send or a broadcast
\* goes back to reading (or on to the register_ack) whether the send failed or not;
\* and a handler ends only from its own read loop, when its own transport is
\* closed, in a step that ends no other handler.
C21_NoExceptionEscapes ==
    [][\A c \in Conn :
         /\ Takes(c, "nonobject")
            => /\ pc' = pc /\ pc'[c] = "recv"
               /\ clients' = clients
               /\ screen_providers' = screen_providers
               /\ screen_viewers' = screen_viewers
               /\ control_clients' = control_clients
         /\ (pc[c] \in {"accept_send", "reg_send", "ack_send", "reply_send", "gather",
                        "seq_send"} /\ pc'[c] # pc[c])
            => pc'[c] = IF pc[c] = "reg_send" THEN "ack_send" ELSE "recv"
         /\ (pc[c] # "done" /\ pc'[c] = "done")
            => /\ pc[c] = "recv"
               /\ state[c] = "CLOSED"
               /\ \A d \in Conn \ {c} : pc'[d] = pc[d]]_vars

\* Connection 2 has had a broadcast with a failed send, has then sent a JSON list and
\* the message after it, and is still being read; the connection whose send failed
\* was unregistered and its handler is still there too.
C21_Witness ==
    /\ inbox # Free
    /\ Len(inbox[2]) = 2
    /\ pc[2] = "recv"
    /\ state[2] = "OPEN"
    /\ 2 \in clients
    /\ \E d \in Conn \ {2} : state[d] = "CLOSED" /\ d \notin clients /\ pc[d] = "recv"

\* C22: the step that processes a register message of c starts one send, to c: of
\* the cached frame if c registers as viewer and a frame is cached, else of the
\* register_ack.  When the send of the frame resolves the register_ack is sent,
\* to c, and when that resolves the handler reads on: the frame goes out before
\* the ack, and without a cached frame the ack is all that is sent.
C22_FrameBeforeAck ==
    [][\A c \in Conn :
         /\ (pc[c] = "recv" /\ pc'[c] \in {"reg_send", "ack_send"})
            => /\ IF msg'[c].req.client_type = "viewer" /\ current_screen_data # NoFrame
                  THEN /\ pc'[c] = "reg_send"
                       /\ msg'[c].out = current_screen_data
                       /\ msg'[c].out.type = "screenshot"
                  ELSE /\ pc'[c] = "ack_send"
                       /\ msg'[c].out.type = "register_ack"
                       /\ msg'[c].out.client_type = msg'[c].req.client_type
               /\ bc' = bc
               /\ \A d \in Conn \ {c} : pc'[d] = pc[d] /\ msg'[d] = msg[d]
         /\ (pc[c] = "reg_send" /\ pc'[c] # "reg_send")
            => /\ pc'[c] = "ack_send"
               /\ msg'[c].out.type = "register_ack"
               /\ msg'[c].out.client_type = msg[c].req.client_type
               /\ bc' = bc
               /\ \A d \in Conn \ {c} : pc'[d] = pc[d] /\ msg'[d] = msg[d]
         /\ (pc[c] = "ack_send" /\ pc'[c] # "ack_send")
            => /\ pc'[c] = "recv"
               /\ bc' = bc
               /\ \A d \in Conn \ {c} : pc'[d] = pc[d] /\ msg'[d] = msg[d]]_vars

\* A connection has registered as viewer while a frame was cached: the frame is on
\* its way to it and the register_ack has not been sent yet.
C22_Witness ==
    \E c \in Conn :
        /\ pc[c] = "reg_send"
        /\ msg[c].req = [type |-> "register", client_type |-> "viewer"]
        /\ msg[c].out = current_screen_data
        /\ state[c] = "OPEN"

\* C23: there is no transition out of Removed: a connection that has been accepted
\* and is in neither clients nor a role set (it has been unregistered) is in none
\* of them after any step.
C23_RemovedStaysRemoved ==
    [][\A c \in Conn :
         (pc[c] # "new" /\ c \notin clients \cup Roles)
         => c \notin clients' \cup Roles']_vars

\* C24: a ping yields exactly one pong, to its sender only.  The step that processes
\* the ping of c builds the reply {type: pong} for c and starts no other send; when
\* that send resolves one message has been sent if c is open (messages_sent grows by
\* one in muma2.0.py) and none otherwise; neither step changes clients, a role set
\* or the cached frame.
C24_PingPong ==
    [][\A c \in Conn :
         /\ (pc[c] = "recv" /\ pc'[c] = "reply_send" /\ msg'[c].req.type = "ping")
            => /\ msg'[c].out = [type |-> "pong"]
               /\ bc' = bc
               /\ \A d \in Conn \ {c} : pc'[d] = pc[d] /\ msg'[d] = msg[d]
               /\ stats'.messages_sent = stats.messages_sent
               /\ <<clients, screen_providers, screen_viewers, control_clients,
                    current_screen_data>>'
                  = <<clients, screen_providers, screen_viewers, control_clients,
                      current_screen_data>>
         /\ (pc[c] = "reply_send" /\ pc'[c] # "reply_send" /\ msg[c].req.type = "ping")
            => /\ msg[c].out = [type |-> "pong"]
               /\ pc'[c] = "recv"
               /\ bc' = bc
               /\ \A d \in Conn \ {c} : pc'[d] = pc[d] /\ msg'[d] = msg[d]
               /\ revision = "muma2.0"
                  => stats'.messages_sent
                       = stats.messages_sent + (IF state[c] = "OPEN" THEN 1 ELSE 0)
               /\ <<clients, screen_providers, screen_viewers, control_clients,
                    current_screen_data>>'
                  = <<clients, screen_providers, screen_viewers, control_clients,
                      current_screen_data>>]_vars

\* The ping of an open connection has been processed and its pong is being sent,
\* with a frame cached and another connection registered.
C24_Witness ==
    \E c \in Conn :
        /\ pc[c] = "reply_send"
        /\ msg[c] = [req |-> [type |-> "ping"], out |-> [type |-> "pong"]]
        /\ state[c] = "OPEN"
        /\ HasFrame
        /\ clients \ {c} # {}

C26_DefaultIsViewerOnly ==
    [][\A c \in Conn :
         (Takes(c, "register") /\ "client_type" \notin DOMAIN Head(inbox[c]))
         => /\ c \in screen_viewers'
            /\ c \notin screen_providers' \cup control_clients'
            /\ msg'[c].req.client_type = "viewer"
            /\ IF current_screen_data # NoFrame
               THEN pc'[c] = "reg_send" /\ msg'[c].out = current_screen_data
               ELSE /\ pc'[c] = "ack_send"
                    /\ msg'[c].out.type = "register_ack"
                    /\ msg'[c].out.client_type = "viewer"]_vars

\* C27: a screen_data message is accepted from a connection of any role.  Whoever
\* sends it, the step that processes it replaces the cached frame by the message's
\* frame and, if there is a viewer, starts the broadcast of that frame to the
\* members of screen_viewers, one pending send each.
C27_FrameFromAnyRole ==
    [][\A c \in Conn :
         Takes(c, "screen_data")
         => LET r == Head(inbox[c])
                frame == [type |-> "screenshot", data |-> r.data, width |-> r.width,
                          height |-> r.height, original_width |-> r.original_width,
                          original_height |-> r.original_height]
            IN  /\ current_screen_data' = frame
                /\ IF screen_viewers = {}
                   THEN pc' = pc /\ bc' = bc
                   ELSE /\ pc'[c] = BcPc
                        /\ bc'[c].role = "viewer"
                        /\ bc'[c].payload = frame
                        /\ Range(bc'[c].targets) = screen_viewers
                        /\ \A i \in DOMAIN bc'[c].results : bc'[c].results[i] = "pending"]_vars

\* The frame of a connection that registered as controller, and is no provider, is
\* cached and has been sent to a viewer other than itself.
C27_Witness ==
    \E c \in Conn :
        /\ pc[c] = "gather"
        /\ bc[c].role = "viewer"
        /\ declared[c].client_type = "controller"
        /\ c \in control_clients \ screen_providers
        /\ current_screen_data = bc[c].payload
        /\ Succeeded(c) \ {c} # {}

\* C28: a broadcast to an empty target set is a no-op.  The step that processes a
\* screen_data message while screen_viewers is empty replaces the cached frame and
\* does nothing else: no send is started, nothing is counted as sent, nobody is
\* unregistered, the handler reads on.  The step that processes a mouse or keyboard
\* message while screen_providers is empty changes neither the sets nor the frame
\* nor screen_info and starts no send either.
C28_EmptyBroadcastIsNoOp ==
    [][\A c \in Conn :
         /\ (Takes(c, "screen_data") /\ screen_viewers = {})
            => /\ current_screen_data'.data = Head(inbox[c]).data
               /\ current_screen_data'.type = "screenshot"
               /\ pc' = pc /\ bc' = bc /\ msg' = msg
               /\ stats'.messages_sent = stats.messages_sent
               /\ <<clients, screen_providers, screen_viewers, control_clients>>'
                  = <<clients, screen_providers, screen_viewers, control_clients>>
         /\ ((Takes(c, "mouse") \/ Takes(c, "keyboard")) /\ screen_providers = {})
            => /\ pc' = pc /\ bc' = bc /\ msg' = msg
               /\ stats'.messages_sent = stats.messages_sent
               /\ <<clients, screen_providers, screen_viewers, control_clients,
                    current_screen_data, screen_info>>'
                  = <<clients, screen_providers, screen_viewers, control_clients,
                      current_screen_data, screen_info>>]_vars

\* RolesScript: the controller's click has been processed while no connection had
\* registered as provider; nothing but the controller's register_ack has been sent
\* and the controller is registered and being read.
C28_Witness ==
    /\ inbox # Free
    /\ inbox[3] = <<>>
    /\ declared[3].client_type = "controller"
    /\ \A c \in Conn : declared[c].client_type # "provider"
    /\ pc[3] = "recv"
    /\ state[3] = "OPEN"
    /\ 3 \in clients \cap control_clients
    /\ stats.messages_sent <= 1

\* A connection that a broadcast has unregistered is about to have its screen_data
\* processed while screen_viewers is empty.
C28_NoViewerReached ==
    \E c \in Conn :
        /\ pc[c] = "recv"
        /\ inbox # Free
        /\ inbox[c] # <<>>
        /\ Head(inbox[c]).type = "screen_data"
        /\ screen_viewers = {}

\* The screenshot record of a submitted frame, whole.
WholeFrame(frame) ==
    \E m \in ScriptFrames :
        frame = [type |-> "screenshot", data |-> m.data, width |-> m.width,
                 height |-> m.height, original_width |-> m.original_width,
                 original_height |-> m.original_height]

\* C29: concurrent frames do not corrupt the shared state.  After every step the
\* cached frame is None or one submitted frame in its entirety, screen_info is that
\* of the same frame, and every frame being broadcast is a whole one; the cached
\* frame changes only in the step that processes a screen_data message, to that
\* message's frame, so that once the handlers have finished it is the frame of the
\* update applied last.
C29_FramesAreWhole ==
    [][/\ current_screen_data' = NoFrame
          => screen_info' = NoInfo
       /\ current_screen_data' # NoFrame
          => /\ WholeFrame(current_screen_data')
             /\ screen_info' = [width |-> current_screen_data'.width,
                                height |-> current_screen_data'.height,
                                original_width |-> current_screen_data'.original_width,
                                original_height |-> current_screen_data'.original_height]
       /\ \A h \in Conn : bc'[h].role = "viewer" => WholeFrame(bc'[h].payload)
       /\ (current_screen_data' # current_screen_data \/ screen_info' # screen_info)
          => \E c \in Conn : /\ Takes(c, "screen_data")
                             /\ current_screen_data'.data = Head(inbox[c]).data
                             /\ current_screen_data'.width = Head(inbox[c]).width]_vars

\* Connections 1 and 2 have each a frame broadcast under way, of different frames,
\* some of the sends not resolved; the cached frame is the frame of connection 1,
\* processed after that of connection 2.
C29_Witness ==
    /\ pc[1] = "gather" /\ pc[2] = "gather"
    /\ bc[1].role = "viewer" /\ bc[2].role = "viewer"
    /\ bc[1].payload # bc[2].payload
    /\ \E i \in DOMAIN bc[1].results : bc[1].results[i] = "pending"
    /\ \E i \in DOMAIN bc[2].results : bc[2].results[i] = "pending"
    /\ current_screen_data = bc[1].payload
    /\ 2 \in Range(bc[1].targets)

\* C30: concurrent handlers never deadlock.  In muma2.0.py, if every pending send
\* resolves, the handler of a connection that is in a frame or control broadcast
\* goes back to reading.
C30_BroadcastsReturn ==
    \A h \in Conn : (pc[h] = "gather") ~> (pc[h] = "recv")

\* The frame broadcast of connection 1 and the control broadcast of connection 2
\* are under way at the same time, each with a pending send.
C30_Witness ==
    \E h \in Conn : \E g \in Conn :
        /\ pc[h] = "gather" /\ bc[h].role = "viewer"
        /\ pc[g] = "gather" /\ bc[g].role = "provider"
        /\ \E i \in DOMAIN bc[h].results : bc[h].results[i] = "pending"
        /\ \E i \in DOMAIN bc[g].results : bc[g].results[i] = "pending"

\* C31: a status returned by get_server_status holds the counts of one state of the
\* registry: in particular none of screen_providers, screen_viewers and
\* control_clients exceeds total_clients, whatever the event loop does meanwhile.
C31_StatusIsOneState ==
    snap.read = 4 =>
        /\ snap.screen_providers <= snap.total_clients
        /\ snap.screen_viewers <= snap.total_clients
        /\ snap.control_clients <= snap.total_clients

\* C32: in muma.py, whatever other handlers register or unregister while a broadcast
\* is under way, when the broadcast's handler returns every target whose send failed
\* has been unregistered and every member of the role set at the start has had a
\* send attempted.
C32_SeqBroadcastIsComplete ==
    [][\A h \in Conn :
         (revision = "muma" /\ Returns(h))
         => /\ Failed(h) \cap (clients' \cup screen_providers' \cup screen_viewers'
                                          \cup control_clients') = {}
            /\ Range(bc[h].targets) \subseteq Attempted(h)]_vars

\* C33: in muma.py a viewer whose send stays pending does not keep the other viewers
\* of the same frame broadcast from being sent the frame: with fair sends, every
\* target of the broadcast that is not slow has a send attempted, unless the loop has
\* ended before.
C33_OthersAreNotHeldUp ==
    \A h \in Conn : \A t \in Conn \ Slow :
        (pc[h] = "seq_send" /\ t \in Range(bc[h].targets))
        ~> (pc[h] # "seq_send" \/ t \in Attempted(h))

\* C34: in every state between two steps of the handlers screen_info agrees with the
\* cache: while no frame is cached the status has has_screen_data false and the four
\* fields of screen_info are 0; once a frame is cached, has_screen_data is true and
\* the four fields are those of the cached frame.
C34_InfoAgreesWithCache ==
    /\ current_screen_data = NoFrame
       => /\ ~GetServerStatus.has_screen_data
          /\ screen_info.width = 0 /\ screen_info.height = 0
          /\ screen_info.original_width = 0 /\ screen_info.original_height = 0
    /\ current_screen_data # NoFrame
       => /\ GetServerStatus.has_screen_data
          /\ screen_info.width = current_screen_data.width
          /\ screen_info.height = current_screen_data.height
          /\ screen_info.original_width = current_screen_data.original_width
          /\ screen_info.original_height = current_screen_data.original_height

\* Frame 2 is cached, and screen_info is that of frame 2, while the broadcast of
\* frame 1 by connection 1 is still under way.
C34_Witness ==
    /\ pc[1] = "gather"
    /\ bc[1].payload.data = 1
    /\ current_screen_data.data = 2
    /\ screen_info = [width |-> 2, height |-> 3, original_width |-> 4,
                      original_height |-> 6]

\* C35: the frames of one connection are relayed in the order of their submission.
\* A connection's next message is taken only after the broadcast of its previous
\* frame has ended, all sends of it resolved; the broadcast a screen_data message
\* starts carries that message's frame, and none of its sends has been started
\* before.  So no viewer is sent the second frame of a connection before the first.
C35_FramesInOrder ==
    [][\A c \in Conn :
         /\ inbox'[c] # inbox[c]
            => /\ pc[c] = "recv"
               /\ bc[c] = NoBc
         /\ Takes(c, "screen_data")
            => \/ bc'[c] = NoBc /\ screen_viewers = {}
               \/ /\ bc'[c].payload.data = Head(inbox[c]).data
                  /\ bc'[c].tried = {}
                  /\ \A i \in DOMAIN bc'[c].results : bc'[c].results[i] = "pending"
         /\ (pc[c] = "gather" /\ pc'[c] = "recv")
            => \A i \in DOMAIN bc[c].results : bc[c].results[i] # "pending"]_vars

\* Connection 1 has submitted frame 1 and then frame 0; the broadcast of frame 0 is
\* under way and one of its sends has completed.
C35_Witness ==
    /\ inbox[1] = <<>>
    /\ pc[1] = "gather"
    /\ bc[1].payload.data = 0
    /\ \E i \in DOMAIN bc[1].results : bc[1].results[i] = "ok"

\* C36: control events are never queued.  A broadcast to the providers starts only in
\* the step that takes a mouse or keyboard message, while screen_providers is not
\* empty, and carries that message; no task ever holds a control event outside such
\* a broadcast; and the step in which a connection joins screen_providers starts no
\* send but that of its own register_ack.  So an event processed while there was no
\* provider is delivered to no provider that registers later.
C36_ControlIsNeverQueued ==
    [][\A c \in Conn :
         /\ (bc[c].role # "provider" /\ bc'[c].role = "provider")
            => /\ Takes(c, "mouse") \/ Takes(c, "keyboard")
               /\ bc'[c].payload = Head(inbox[c])
               /\ screen_providers # {}
         /\ msg'[c].out.type \notin {"mouse", "keyboard"}
         /\ (c \notin screen_providers /\ c \in screen_providers')
            => /\ bc' = bc
               /\ msg'[c].out.type = "register_ack"
               /\ \A d \in Conn \ {c} : msg'[d] = msg[d]]_vars

\* RolesScript: the controller's click was taken while there was no provider, and
\* connection 2 has registered as provider since: its register_ack is being sent,
\* and the controller's register_ack is the only message sent so far.
C36_Witness ==
    /\ inbox # Free
    /\ inbox[3] = <<>>
    /\ pc[3] = "recv"
    /\ declared[3].client_type = "controller"
    /\ 2 \in screen_providers
    /\ pc[2] = "ack_send"
    /\ \A c \in Conn : state[c] = "OPEN"
    /\ stats.messages_sent = 1
    /\ \A h \in Conn : bc[h] = NoBc

\* C37: a register message whose client_type is none of provider, controller and
\* viewer (null included) leaves the connection a member of clients and of
\* screen_viewers and of no other role set it was not in, does not send it the
\* cached frame, and is answered by a register_ack that echoes the client_type
\* received.
C37_UnknownRoleIsViewer ==
    [][\A c \in Conn :
         (Takes(c, "register") /\ Head(inbox[c]).client_type \notin ClientTypes)
         => /\ c \in clients' \cap screen_viewers'
            /\ screen_providers' = screen_providers
            /\ control_clients' = control_clients
            /\ pc'[c] = "ack_send"
            /\ msg'[c].out = [type |-> "register_ack",
                              client_type |-> Head(inbox[c]).client_type,
                              screen_info |-> screen_info']]_vars

\* A frame is cached and connection 2, which registered as "admin", is a viewer
\* about to be sent a register_ack for "admin".
C37_Witness ==
    /\ current_screen_data # NoFrame
    /\ declared[2].client_type = "admin"
    /\ 2 \in screen_viewers
    /\ pc[2] = "ack_send"
    /\ msg[2].out.client_type = "admin"
    /\ msg[2].out.screen_info.width = 1

\* C38: at the moment a register_ack is sent to a connection (its transport open),
\* the connection is a member of clients and of the role set of the role it
\* declared, and the screen_info of the ack is that of the frame accepted last
\* (zeros if there is none), a frame accepted during the fast-path send included.
C38_AckAfterRegistration ==
    [][\A c \in Conn :
         (pc[c] # "ack_send" /\ pc'[c] = "ack_send" /\ state'[c] = "OPEN")
         => /\ c \in clients'
            /\ c \in RoleSetOf(declared'[c].client_type, screen_providers',
                                screen_viewers', control_clients')
            /\ msg'[c].out.type = "register_ack"
            /\ msg'[c].out.screen_info =
                  [width |-> current_screen_data'.width,
                   height |-> current_screen_data'.height,
                   original_width |-> current_screen_data'.original_width,
                   original_height |-> current_screen_data'.original_height]]_vars

\* C39: in muma2.0.py the statistics are exact and monotone.  messages_sent never
\* decreases, and the step that ends a broadcast adds to it exactly the number of
\* targets whose send succeeded, whatever happened to the registry meanwhile;
\* messages_received grows by 1 in the step that takes a payload that decodes to a
\* JSON object, by 0 in the step that takes any other payload, and in no other step.
C39_StatsAreExact ==
    [][/\ stats'.messages_sent >= stats.messages_sent
       /\ \A h \in Conn :
             (pc[h] = "gather" /\ pc'[h] = "recv")
             => stats'.messages_sent = stats.messages_sent + Cardinality(Succeeded(h))
       /\ \A c \in Conn :
             inbox'[c] # inbox[c]
             => stats'.messages_received =
                   stats.messages_received
                   + (IF Head(inbox[c]) \in {Undecodable, NonObject} THEN 0 ELSE 1)
       /\ inbox' = inbox => stats'.messages_received = stats.messages_received]_vars

====
